---------------------------- MODULE Spec2Model ----------------------------
(***************************************************************************)
(* flake8-test-docs: a model of src/flake8_test_docs.py.                   *)
(*                                                                         *)
(* Text is a sequence of one-character strings, so that prefix, substring, *)
(* strip and splitlines are computed as Python computes them.              *)
(*                                                                         *)
(* Four specifications:                                                    *)
(*   SpecChecker  the pure function _docstring_problem_message, applied to *)
(*                one docstring drawn from a bounded family of texts;      *)
(*   Spec         Plugin.run: the file-name filter, then the Visitor's     *)
(*                walk over a bounded syntax tree, one node per step.      *)
(*   SpecSession  one flake8 process: the command line is parsed, the      *)
(*                options are recorded on the class, then Plugin objects   *)
(*                are made for files and their generators are run, one     *)
(*                resumption per step, in any interleaving;                *)
(*   SpecOptions  Plugin.parse_options called any number of times.         *)
(***************************************************************************)
EXTENDS Integers, Sequences, FiniteSets, TLC

VARIABLES
    pc,                          \* position of the running operation
    docstring,                   \* _docstring_problem_message: docstring
    col_offset,                  \* _docstring_problem_message: col_offset
    result,                      \* _docstring_problem_message: what the call did
    test_docs_pattern,           \* Plugin._test_docs_pattern
    test_docs_filename_pattern,  \* Plugin._test_docs_filename_pattern
    test_docs_function_pattern,  \* Plugin._test_docs_function_pattern
    indent_size,                 \* Plugin._indent_size
    tree,                        \* Plugin._tree
    filename,                    \* Plugin._filename
    stack,                       \* the Visitor's pending visits, next first
    visited,                     \* the nodes visit() was called on
    problems,                    \* Visitor.problems
    fault_node,                  \* the node whose visit raised, 0 if none
    yielded,                     \* what the generator Plugin.run yielded
    options,                     \* the argparse Namespace of the process
    exit_status,                 \* how the process ended, "none" while it runs
    runs                         \* the Plugin objects of the process

vars == <<pc, docstring, col_offset, result, test_docs_pattern,
          test_docs_filename_pattern, test_docs_function_pattern, indent_size,
          tree, filename, stack, visited, problems, fault_node, yielded,
          options, exit_status, runs>>

checker_vars == <<docstring, col_offset, result>>
config_vars == <<test_docs_pattern, test_docs_filename_pattern,
                 test_docs_function_pattern, indent_size>>
walker_vars == <<tree, filename, stack, visited, problems, fault_node, yielded>>
session_vars == <<options, exit_status, runs>>

-----------------------------------------------------------------------------
(* Bounds of the model.                                                    *)

\* docstring column offsets 0..MaxColOffset
MaxColOffset == 2
\* indent widths 1..MaxIndentSize
MaxIndentSize == 2
\* length of the free-form docstrings
MaxRawLen == 2
\* nodes of a syntax tree below the Module node
MaxNodes == 2

-----------------------------------------------------------------------------
(* Python str operations on sequences of characters.                       *)

Spaces(n) == [i \in 1..n |-> " "]

\* s[k:]
StrFrom(s, k) == IF k >= Len(s) THEN <<>> ELSE SubSeq(s, k + 1, Len(s))

\* s.startswith(p)
StartsWith(s, p) == Len(p) <= Len(s) /\ SubSeq(s, 1, Len(p)) = p

\* sub in s
StrContains(s, sub) ==
    \E i \in 0..(Len(s) - Len(sub)) : SubSeq(s, i + 1, i + Len(sub)) = sub

\* s.count(" ")
CountSpaces(s) == Cardinality({i \in 1..Len(s) : s[i] = " "})

\* the characters str.strip() removes (those of them the model's texts use)
Whitespace == {" ", "\t", "\n", "\r", "\f"}

RECURSIVE LStrip(_)
LStrip(s) ==
    IF s # <<>> /\ s[1] \in Whitespace THEN LStrip(Tail(s)) ELSE s

RECURSIVE RStrip(_)
RStrip(s) ==
    IF s # <<>> /\ s[Len(s)] \in Whitespace
    THEN RStrip(SubSeq(s, 1, Len(s) - 1))
    ELSE s

\* s.strip()
Strip(s) == RStrip(LStrip(s))

\* the line boundaries of str.splitlines() (those of them the model's texts use)
LineBreaks == {"\n", "\r", "\f"}

\* str.splitlines(): lines end at a line boundary, "\r\n" is one boundary, and
\* a text that ends with a boundary has no empty last line.
\* acc are the lines read so far and s is the text after them.
RECURSIVE SplitLinesFrom(_, _)
SplitLinesFrom(s, acc) ==
    LET breaks == {i \in 1..Len(s) : s[i] \in LineBreaks} IN
    IF breaks = {}
    THEN IF s = <<>> THEN acc ELSE Append(acc, s)
    ELSE LET first == CHOOSE i \in breaks : \A j \in breaks : i <= j
             last == IF s[first] = "\r" /\ first < Len(s) /\ s[first + 1] = "\n"
                     THEN first + 1
                     ELSE first
         IN SplitLinesFrom(SubSeq(s, last + 1, Len(s)),
                           Append(acc, SubSeq(s, 1, first - 1)))

SplitLines(s) == SplitLinesFrom(s, <<>>)

\* sep.join(parts) for a one-character separator
RECURSIVE Join(_, _)
Join(parts, sep) ==
    IF parts = <<>> THEN <<>>
    ELSE IF Len(parts) = 1 THEN parts[1]
    ELSE parts[1] \o <<sep>> \o Join(Tail(parts), sep)

\* s.split(sep) for a one-character separator
RECURSIVE SplitOnFrom(_, _, _, _, _)
SplitOnFrom(s, sep, i, cur, acc) ==
    IF i > Len(s) THEN Append(acc, cur)
    ELSE IF s[i] = sep THEN SplitOnFrom(s, sep, i + 1, <<>>, Append(acc, cur))
    ELSE SplitOnFrom(s, sep, i + 1, Append(cur, s[i]), acc)

Split(s, sep) == SplitOnFrom(s, sep, 1, <<>>, <<>>)

-----------------------------------------------------------------------------
(* Module constants.                                                       *)

\* the first flake8.extension key of pyproject.toml, read when the module is
\* imported; the model fixes it to the plugin's registered prefix
ERROR_CODE_PREFIX == <<"T","D","O">>
MORE_INFO_BASE == "more information: https://github.com/jdkandersson/flake8-test-docs"
MISSING_CODE == ERROR_CODE_PREFIX \o <<"0","0","1">>
INVALID_CODE == ERROR_CODE_PREFIX \o <<"0","0","2">>

\* str.lower() on the characters a rule code is made of
LowerChar(c) ==
    CASE c = "T" -> "t" [] c = "D" -> "d" [] c = "O" -> "o" [] OTHER -> c

Lower(s) == [i \in 1..Len(s) |-> LowerChar(s[i])]

\* f", {MORE_INFO_BASE}#fix-{code.lower()}"
MoreInfo(code) == <<", ", MORE_INFO_BASE, "#fix-", Lower(code)>>

INVALID_MSG_POSTFIX == MoreInfo(INVALID_CODE)

TEST_DOCS_PATTERN_DEFAULT ==
    <<"a","r","r","a","n","g","e","/","a","c","t","/","a","s","s","e","r","t">>
TEST_DOCS_FILENAME_PATTERN_DEFAULT ==
    <<"t","e","s","t","_",".","*",".","p","y">>
TEST_DOCS_FUNCTION_PATTERN_DEFAULT ==
    <<"t","e","s","t","_",".","*">>
INDENT_SIZE_DEFAULT == 4
ARRANGE_DESCRIPTION == "setup"
ACT_DESCRIPTION == "execution"
ASSERT_DESCRIPTION == "checks"

\* DocsPattern(*value.split("/")): the three names, in order
DocsPattern(value) == Split(value, "/")

-----------------------------------------------------------------------------
(* Problem texts.  A text is its f-string template and the values put in   *)
(* it; None is the text of rule "None".                                    *)

Text(rule, name, description, line, header_line, width) ==
    [rule |-> rule, name |-> name, description |-> description,
     line |-> line, header_line |-> header_line, width |-> width]

None == Text("None", <<>>, "", 0, 0, 0)

EMPTY_RULE == "the docstring should not be empty"
START_RULE == "the docstring should start with an empty line"
SINGLE_EMPTY_RULE ==
    "there should only be a single empty line at the start of the docstring, found an empty line on line {line}"
INCLUDE_RULE ==
    "the docstring should include \"{name}\" describing the test {description} on line {line} of the docstring"
HEADER_INDENT_RULE ==
    "the indentation of line {line} of the docstring should match the indentation of the docstring"
START_WITH_RULE == "line {line} of the docstring should start with \"{name}:\""
FOLLOWED_RULE ==
    "\"{name}:\" should be followed by a description of the test {description} on line {line} of the docstring"
EMPTY_LINE_RULE ==
    "there should not be an empty line in the test {description} description on line {line} of the docstring"
INDENTED_RULE ==
    "test {description} description on line {line} should be indented by {width} more spaces than \"{name}:\" on line {header_line}"
LAST_LINE_RULE ==
    "the indentation of the last line of the docstring at line {line} should match the indentation of the docstring"

-----------------------------------------------------------------------------
(* The Section Grammar Checker.                                            *)

Section(index_, name, description, next_section_name) ==
    [index_ |-> index_, name |-> name, description |-> description,
     next_section_name |-> next_section_name]

\* Optional[str] for next_section_name: None is a value no name equals
NoName == <<"None">>

\* _section_start_problem_message with the indentation tested before the name
_section_start_problem_message_IndentFirst(line, section, offset, section_prefix) ==
    IF line = <<>>
    THEN Text(SINGLE_EMPTY_RULE, <<>>, "", section.index_, 0, 0)
    ELSE IF ~StartsWith(line, section_prefix)
    THEN Text(HEADER_INDENT_RULE, <<>>, "", section.index_, 0, 0)
    ELSE IF ~StrContains(line, section.name)
    THEN Text(INCLUDE_RULE, section.name, section.description, section.index_, 0, 0)
    ELSE IF ~StartsWith(StrFrom(line, offset), section.name \o <<":">>)
    THEN Text(START_WITH_RULE, section.name, "", section.index_, 0, 0)
    ELSE IF StrFrom(line, offset + Len(section.name) + 1) = <<>>
    THEN Text(FOLLOWED_RULE, section.name, section.description, section.index_, 0, 0)
    ELSE None

_section_start_problem_message(line, section, offset, section_prefix) ==
    IF line = <<>>
    THEN Text(SINGLE_EMPTY_RULE, <<>>, "", section.index_, 0, 0)
    ELSE IF ~StrContains(line, section.name)
    THEN Text(INCLUDE_RULE, section.name, section.description, section.index_, 0, 0)
    ELSE IF ~StartsWith(line, section_prefix)
    THEN Text(HEADER_INDENT_RULE, <<>>, "", section.index_, 0, 0)
    ELSE IF ~StartsWith(StrFrom(line, offset), section.name \o <<":">>)
    THEN Text(START_WITH_RULE, section.name, "", section.index_, 0, 0)
    ELSE IF StrFrom(line, offset + Len(section.name) + 1) = <<>>
    THEN Text(FOLLOWED_RULE, section.name, section.description, section.index_, 0, 0)
    ELSE None

\* _next_section_start without the test for a line at the section prefix
_next_section_start_NoPrefix(line, next_section_name, section_prefix) ==
    \/ next_section_name # NoName /\ StartsWith(Strip(line), next_section_name)
    \/ Len(line) < Len(section_prefix) /\ CountSpaces(line) = Len(line)

\* _next_section_start without the test for a line of too few spaces
_next_section_start_NoShort(line, next_section_name, section_prefix) ==
    \/ next_section_name # NoName /\ StartsWith(Strip(line), next_section_name)
    \/ /\ StartsWith(line, section_prefix)
       /\ ~StartsWith(StrFrom(line, Len(section_prefix)), <<" ">>)

_next_section_start(line, next_section_name, section_prefix) ==
    \/ next_section_name # NoName /\ StartsWith(Strip(line), next_section_name)
    \/ Len(line) < Len(section_prefix) /\ CountSpaces(line) = Len(line)
    \/ /\ StartsWith(line, section_prefix)
       /\ ~StartsWith(StrFrom(line, Len(section_prefix)), <<" ">>)

\* RemainingFrom without the test for spaces beyond the description prefix
RECURSIVE RemainingFrom_NoExcess(_, _, _, _, _, _)
RemainingFrom_NoExcess(section, docstring_lines, section_prefix, description_prefix, width, line_index) ==
    LET line == docstring_lines[line_index + 1] IN
    IF line = <<>>
    THEN <<Text(EMPTY_LINE_RULE, <<>>, section.description, line_index, 0, 0),
           line_index>>
    ELSE IF _next_section_start(line, section.next_section_name, section_prefix)
    THEN <<None, line_index>>
    ELSE IF ~StartsWith(line, description_prefix)
    THEN <<Text(INDENTED_RULE, section.name, section.description, line_index,
                section.index_, width), line_index>>
    ELSE IF line_index + 1 < Len(docstring_lines)
    THEN RemainingFrom_NoExcess(section, docstring_lines, section_prefix,
                                description_prefix, width, line_index + 1)
    ELSE <<None, line_index>>

\* RemainingFrom that reads on after a problem and returns the last one
RECURSIVE RemainingFrom_Later(_, _, _, _, _, _)
RemainingFrom_Later(section, docstring_lines, section_prefix, description_prefix, width, line_index) ==
    LET line == docstring_lines[line_index + 1]
        later == IF line_index + 1 < Len(docstring_lines)
                 THEN RemainingFrom_Later(section, docstring_lines, section_prefix,
                                          description_prefix, width, line_index + 1)
                 ELSE <<None, line_index>>
    IN
    IF _next_section_start(line, section.next_section_name, section_prefix) /\ line # <<>>
    THEN <<None, line_index>>
    ELSE IF later[1] # None
    THEN later
    ELSE IF line = <<>>
    THEN <<Text(EMPTY_LINE_RULE, <<>>, section.description, line_index, 0, 0),
           line_index>>
    ELSE IF \/ ~StartsWith(line, description_prefix)
            \/ StartsWith(StrFrom(line, Len(description_prefix)), <<" ">>)
    THEN <<Text(INDENTED_RULE, section.name, section.description, line_index,
                section.index_, width), line_index>>
    ELSE later

\* the loop of _remaining_description_problem_message from line_index on;
\* docstring_lines[line_index] is the TLA+ element line_index + 1
RECURSIVE RemainingFrom(_, _, _, _, _, _)
RemainingFrom(section, docstring_lines, section_prefix, description_prefix, width, line_index) ==
    LET line == docstring_lines[line_index + 1] IN
    IF line = <<>>
    THEN <<Text(EMPTY_LINE_RULE, <<>>, section.description, line_index, 0, 0),
           line_index>>
    ELSE IF _next_section_start(line, section.next_section_name, section_prefix)
    THEN <<None, line_index>>
    ELSE IF \/ ~StartsWith(line, description_prefix)
            \/ StartsWith(StrFrom(line, Len(description_prefix)), <<" ">>)
    THEN <<Text(INDENTED_RULE, section.name, section.description, line_index,
                section.index_, width), line_index>>
    ELSE IF line_index + 1 < Len(docstring_lines)
    THEN RemainingFrom(section, docstring_lines, section_prefix,
                       description_prefix, width, line_index + 1)
    ELSE <<None, line_index>>

\* returns <<problem text or None, index of the start of the next section>>
_remaining_description_problem_message(section, docstring_lines, section_prefix, description_prefix, width) ==
    IF section.index_ + 1 >= Len(docstring_lines)
    THEN <<None, section.index_ + 1>>
    ELSE RemainingFrom(section, docstring_lines, section_prefix,
                       description_prefix, width, section.index_ + 1)

\* what a call did: it returned a text or None, or it raised IndexError
Returned(text) == [kind |-> "returned", text |-> text]
IndexError == [kind |-> "IndexError", text |-> None]

Descriptions == <<ARRANGE_DESCRIPTION, ACT_DESCRIPTION, ASSERT_DESCRIPTION>>

\* the section loop of _docstring_problem_message from the k-th section on
RECURSIVE SectionsFrom(_, _, _, _, _, _)
SectionsFrom(k, section_index, docstring_lines, offset, docs_pattern, width) ==
    LET section_prefix == Spaces(offset)
        description_prefix == section_prefix \o Spaces(width)
    IN
    IF k > Len(docs_pattern)
    THEN IF \/ Len(docstring_lines) <= section_index
            \/ docstring_lines[section_index + 1] # section_prefix
         THEN Returned(Text(LAST_LINE_RULE, <<>>, "", section_index, 0, 0))
         ELSE Returned(None)
    ELSE
    LET section == Section(section_index, docs_pattern[k], Descriptions[k],
                           IF k < Len(docs_pattern) THEN docs_pattern[k + 1]
                           ELSE NoName)
    IN
    IF section.index_ >= Len(docstring_lines)
    THEN IndexError
    ELSE
    LET start_problem ==
            _section_start_problem_message(docstring_lines[section.index_ + 1],
                                           section, offset, section_prefix)
    IN
    IF start_problem # None
    THEN Returned(start_problem)
    ELSE
    LET rest == _remaining_description_problem_message(
                    section, docstring_lines, section_prefix,
                    description_prefix, width)
    IN
    IF rest[1] # None
    THEN Returned(rest[1])
    ELSE SectionsFrom(k + 1, rest[2], docstring_lines, offset, docs_pattern, width)

\* DocstringProblemText with the sections read before the start of the text
DocstringProblemText_SectionsFirst(text, offset, docs_pattern, width) ==
    IF text = <<>>
    THEN Returned(Text(EMPTY_RULE, <<>>, "", 0, 0, 0))
    ELSE LET sections == SectionsFrom(1, 1, SplitLines(text), offset, docs_pattern, width) IN
         IF sections # Returned(None) THEN sections
         ELSE IF ~StartsWith(text, <<"\n">>)
         THEN Returned(Text(START_RULE, <<>>, "", 0, 0, 0))
         ELSE sections

\* _docstring_problem_message.__wrapped__: the function under the decorator
DocstringProblemText(text, offset, docs_pattern, width) ==
    IF text = <<>>
    THEN Returned(Text(EMPTY_RULE, <<>>, "", 0, 0, 0))
    ELSE IF ~StartsWith(text, <<"\n">>)
    THEN Returned(Text(START_RULE, <<>>, "", 0, 0, 0))
    ELSE SectionsFrom(1, 1, SplitLines(text), offset, docs_pattern, width)

-----------------------------------------------------------------------------
(* Diagnostic messages: f"{code} {text}{postfix}" kept in its three parts. *)

Message(code, text, postfix) == [code |-> code, text |-> text, postfix |-> postfix]

\* the wrapper's None
NoMessage == Message(<<>>, None, <<>>)

MISSING_RULE == "Docstring not defined on test function"

MISSING_MSG ==
    Message(MISSING_CODE, Text(MISSING_RULE, <<>>, "", 0, 0, 0), MoreInfo(MISSING_CODE))

\* InvalidMessage without the rule code in front of the text
InvalidMessage_NoCode(return_value) ==
    IF return_value = None THEN NoMessage
    ELSE Message(<<>>, return_value, INVALID_MSG_POSTFIX)

\* the wrapper of _append_invalid_msg_prefix_postfix around a returned value
InvalidMessage(return_value) ==
    IF return_value = None THEN NoMessage
    ELSE Message(INVALID_CODE, return_value, INVALID_MSG_POSTFIX)

\* what a call of the decorated function did
Outcome(kind, msg) == [kind |-> kind, msg |-> msg]

\* the decorated _docstring_problem_message
_docstring_problem_message(text, offset, docs_pattern, width) ==
    LET inner == DocstringProblemText(text, offset, docs_pattern, width) IN
    IF inner.kind = "IndexError"
    THEN Outcome("IndexError", NoMessage)
    ELSE Outcome("returned", InvalidMessage(inner.text))

\* before the call
NotCalled == Outcome("not called", NoMessage)

-----------------------------------------------------------------------------
(* The process before any option is parsed.                                *)

\* no Namespace yet
NoOptions == [parsed |-> FALSE]

-----------------------------------------------------------------------------
(* The docstrings the checker is applied to.                               *)

GIVEN_WHEN_THEN ==
    <<"g","i","v","e","n","/","w","h","e","n","/","t","h","e","n">>

Patterns == {DocsPattern(TEST_DOCS_PATTERN_DEFAULT), DocsPattern(GIVEN_WHEN_THEN)}

ColOffsets == 0..MaxColOffset
IndentSizes == 1..MaxIndentSize

\* every text of at most MaxRawLen of these characters
RawChars == {"\n", "\r", " ", "x"}

RECURSIVE RawTexts(_)
RawTexts(n) ==
    IF n = 0 THEN {<<>>}
    ELSE LET shorter == RawTexts(n - 1) IN
         shorter \cup {Append(t, c) : t \in shorter, c \in RawChars}

Word == <<"x">>

HeaderLine(offset, name) == Spaces(offset) \o name \o <<":", " ">> \o Word

\* the lines of one section: its header and, with more, one continuation line
SectionLines(offset, name, width, more) ==
    IF more THEN <<HeaderLine(offset, name), Spaces(offset + width) \o Word>>
    ELSE <<HeaderLine(offset, name)>>

\* a docstring of the accepted form, as the lines between its line breaks
SkeletonLines(offset, docs_pattern, width, more) ==
    <<<<>>>> \o SectionLines(offset, docs_pattern[1], width, more[1])
             \o SectionLines(offset, docs_pattern[2], width, more[2])
             \o SectionLines(offset, docs_pattern[3], width, more[3])
             \o <<Spaces(offset)>>

\* what a line may be changed to: a text at some indentation
LineTexts(docs_pattern) ==
    {<<>>, Word, <<"\t">> \o Word}
    \cup {p[k] \o <<" ">> \o Word : p \in Patterns, k \in 1..3}
    \cup UNION {{n \o <<":">>, n \o <<":", " ">>, n \o <<":", " ">> \o Word,
                 n \o <<" ">> \o Word, Word \o <<" ">> \o n \o <<":", " ">> \o Word}
                : n \in {docs_pattern[k] : k \in 1..3}}

LineSet(offset, docs_pattern, width) ==
    {Spaces(k) \o t : k \in 0..(offset + width + 1), t \in LineTexts(docs_pattern)}

\* the line lists one change away from ls: a line replaced, inserted or removed
OneEdit(ls, lineset) ==
    {ls}
    \cup {[ls EXCEPT ![i] = l] : i \in 1..Len(ls), l \in lineset}
    \cup {SubSeq(ls, 1, i) \o <<l>> \o SubSeq(ls, i + 1, Len(ls))
            : i \in 0..Len(ls), l \in lineset}
    \cup {SubSeq(ls, 1, i - 1) \o SubSeq(ls, i + 1, Len(ls)) : i \in 1..Len(ls)}
    \cup {SubSeq(ls, 1, i) : i \in 1..Len(ls)}

DocstringInputs(offset, docs_pattern, width) ==
    RawTexts(MaxRawLen)
    \cup {Join(ls, "\n") :
            ls \in UNION {OneEdit(SkeletonLines(offset, docs_pattern, width, more),
                                  LineSet(offset, docs_pattern, width))
                          : more \in [1..3 -> BOOLEAN]}}

-----------------------------------------------------------------------------
(* SpecChecker: one call of _docstring_problem_message.                    *)

InitChecker ==
    /\ pc = "call"
    /\ col_offset \in ColOffsets
    /\ test_docs_pattern \in Patterns
    /\ indent_size \in IndentSizes
    /\ docstring \in DocstringInputs(col_offset, test_docs_pattern, indent_size)
    /\ result = NotCalled
    /\ test_docs_filename_pattern = TEST_DOCS_FILENAME_PATTERN_DEFAULT
    /\ test_docs_function_pattern = TEST_DOCS_FUNCTION_PATTERN_DEFAULT
    /\ tree = <<>>
    /\ filename = <<>>
    /\ stack = <<>>
    /\ visited = {}
    /\ problems = <<>>
    /\ fault_node = 0
    /\ yielded = <<>>
    /\ options = NoOptions
    /\ exit_status = "none"
    /\ runs = <<>>

Check ==
    /\ pc = "call"
    /\ result' = _docstring_problem_message(docstring, col_offset,
                                             test_docs_pattern, indent_size)
    /\ pc' = "called"
    /\ UNCHANGED <<docstring, col_offset, config_vars, session_vars, walker_vars>>

NextChecker == Check

SpecChecker == InitChecker /\ [][NextChecker]_vars

-----------------------------------------------------------------------------
(* re.match for the patterns the plugin is configured with: a sequence of  *)
(* atoms, each a literal character, an escaped character or ".", each      *)
(* optionally followed by "*".  The match is anchored at the start of the  *)
(* string only.                                                            *)

\* whether the atom at pattern[i] matches character c
AtomMatches(pattern, i, c) ==
    IF pattern[i] = "\\" THEN i < Len(pattern) /\ pattern[i + 1] = c
    ELSE IF pattern[i] = "." THEN c # "\n"
    ELSE pattern[i] = c

AtomLen(pattern, i) == IF pattern[i] = "\\" THEN 2 ELSE 1

\* whether pattern[i..] matches a prefix of s[j..]
RECURSIVE MatchHere(_, _, _, _)
MatchHere(pattern, i, s, j) ==
    IF i > Len(pattern) THEN TRUE
    ELSE LET next == i + AtomLen(pattern, i) IN
         IF next <= Len(pattern) /\ pattern[next] = "*"
         THEN \E n \in 0..(Len(s) - j + 1) :
                 /\ \A m \in j..(j + n - 1) : AtomMatches(pattern, i, s[m])
                 /\ MatchHere(pattern, next + 1, s, j + n)
         ELSE /\ j <= Len(s)
              /\ AtomMatches(pattern, i, s[j])
              /\ MatchHere(pattern, next, s, j + 1)

\* re.match(pattern, s) is not None
ReMatch(pattern, s) == MatchHere(pattern, 1, s, 1)

\* Path(path).name: the last component of the path
BaseName(path) ==
    LET parts == Split(path, "/")
        named == {i \in 1..Len(parts) : parts[i] # <<>>}
    IN IF named = {} THEN <<>>
       ELSE parts[CHOOSE i \in named : \A k \in named : k <= i]

-----------------------------------------------------------------------------
(* Syntax trees.  tree[n] is the n-th function or class definition of the  *)
(* file in document order; its parent is an earlier definition or 0, the   *)
(* Module node.  first is the first statement of its body.                 *)

TEST_NAME == <<"t","e","s","t","_">>
OTHER_NAME == <<"f","u","n","c","t","i","o","n","_","1">>
INNER_NAME == <<"a","t","e","s","t","_">>
CLASS_NAME == <<"T","e","s","t","S","u","i","t","e">>

\* spaces per nesting level of the source files
SourceIndent == 4

\* the first statement of a body: none (an empty body), a statement that is
\* no expression (Pass), an expression that is no constant (Call), a numeric
\* constant, or a string constant with its text
Statement(kind, value_kind, value_type, value) ==
    [kind |-> kind, value_kind |-> value_kind, value_type |-> value_type,
     value |-> value]

NoStatement == Statement("none", "", "", <<>>)
PassStatement == Statement("Pass", "", "", <<>>)
CallExpr == Statement("Expr", "Call", "", <<>>)
NumberExpr == Statement("Expr", "Constant", "int", <<>>)
StringExpr(text) == Statement("Expr", "Constant", "str", text)

\* a docstring of the accepted form at column offset
ValidDocstring(offset) ==
    Join(SkeletonLines(offset, DocsPattern(TEST_DOCS_PATTERN_DEFAULT),
                       INDENT_SIZE_DEFAULT, [k \in 1..3 |-> k = 1]), "\n")

\* the first statements a definition at column offset may have
FirstStatements(offset) ==
    {NoStatement, PassStatement, CallExpr, NumberExpr, StringExpr(<<>>),
     StringExpr(<<"\n">>), StringExpr(ValidDocstring(offset + SourceIndent))}

\* kinds and names of definitions, and the first statements each is given
NodeShapes(offset) ==
    {<<"FunctionDef", TEST_NAME, f>> : f \in FirstStatements(offset)}
    \cup {<<"FunctionDef", OTHER_NAME, f>> : f \in {PassStatement, StringExpr(<<>>)}}
    \cup {<<"FunctionDef", INNER_NAME, PassStatement>>,
          <<"AsyncFunctionDef", TEST_NAME, PassStatement>>,
          <<"ClassDef", CLASS_NAME, PassStatement>>}

Node(parent, depth, shape, n) ==
    [parent |-> parent, kind |-> shape[1], name |-> shape[2], first |-> shape[3],
     lineno |-> 2 * n, col_offset |-> SourceIndent * depth,
     first_lineno |-> 2 * n + 1, first_col_offset |-> SourceIndent * (depth + 1)]

\* the ancestors of node n of tree t, n itself included
RECURSIVE Ancestors(_, _)
Ancestors(t, n) == IF n = 0 THEN {0} ELSE {n} \cup Ancestors(t, t[n].parent)

Depth(t, n) == Cardinality(Ancestors(t, n)) - 1

\* every tree of at most n definitions: a definition is nested in the one
\* before it, or follows one of that one's ancestors
RECURSIVE Trees(_)
Trees(n) ==
    IF n = 0 THEN {<<>>}
    ELSE LET smaller == Trees(n - 1) IN
         smaller \cup
         UNION {UNION {{Append(t, Node(p, Depth(t, p), shape, Len(t) + 1))
                        : shape \in NodeShapes(SourceIndent * Depth(t, p))}
                      : p \in Ancestors(t, Len(t))}
                : t \in {u \in smaller : Len(u) = n - 1}}

\* values the file-name and function-name options are set to
FilenamePatterns ==
    {TEST_DOCS_FILENAME_PATTERN_DEFAULT,
     <<"t","e","s","t","_",".","*","\\",".","p","y">>}
FunctionPatterns ==
    {TEST_DOCS_FUNCTION_PATTERN_DEFAULT,
     <<"f","u","n","c","t","i","o","n","_",".","*">>}

Filenames ==
    {<<"t","e","s","t","_",".","p","y">>,
     <<"f","i","l","e",".","p","y">>,
     <<"t","e","s","t","_","d","p","y">>,
     <<"t","e","s","t","_","/","f","i","l","e",".","p","y">>,
     <<"s","r","c","/","t","e","s","t","_","a",".","p","y">>}

\* type(node).__name__, which visit() dispatches on; node 0 is the Module
KindOf(t, n) == IF n = 0 THEN "Module" ELSE t[n].kind

\* node.body of definition n, as far as it holds definitions, in order
Children(t, n) ==
    LET RECURSIVE From(_)
        From(i) == IF i > Len(t) THEN <<>>
                   ELSE IF t[i].parent = n THEN <<i>> \o From(i + 1)
                   ELSE From(i + 1)
    IN From(1)

-----------------------------------------------------------------------------
(* The Test Discovery Walker.                                              *)

Problem(lineno, offset, msg) == [lineno |-> lineno, col_offset |-> offset, msg |-> msg]

\* IsTestFunction with re.search in place of re.match
IsTestFunction_Search(function_pattern, name) ==
    \E k \in 1..(Len(name) + 1) : MatchHere(function_pattern, 1, name, k)

\* re.match(self._test_function_pattern, node.name)
IsTestFunction(function_pattern, name) == ReMatch(function_pattern, name)

\* HasDocstring without the test that the constant is a str
HasDocstring_AnyConstant(node) ==
    /\ node.first.kind # "none"
    /\ node.first.kind = "Expr"
    /\ node.first.value_kind = "Constant"

\* the negation of the condition of the MISSING branch: the body is not empty
\* and its first statement is an expression whose value is a str constant
HasDocstring(node) ==
    /\ node.first.kind # "none"
    /\ node.first.kind = "Expr"
    /\ node.first.value_kind = "Constant"
    /\ node.first.value_type = "str"

\* FunctionDefProblems with the checker run on every test function, its
\* problem appended after the MISSING one
FunctionDefProblems_Both(node, docs_pattern, function_pattern, width) ==
    IF ~IsTestFunction(function_pattern, node.name)
    THEN [kind |-> "returned", problems |-> <<>>]
    ELSE LET outcome == _docstring_problem_message(
                            node.first.value, node.first_col_offset,
                            docs_pattern, width)
             missing == IF HasDocstring(node) THEN <<>>
                        ELSE <<Problem(node.lineno, node.col_offset, MISSING_MSG)>>
         IN IF outcome.kind = "IndexError"
            THEN [kind |-> "IndexError", problems |-> <<>>]
            ELSE IF outcome.msg = NoMessage
            THEN [kind |-> "returned", problems |-> missing]
            ELSE [kind |-> "returned",
                  problems |-> missing \o
                      <<Problem(node.first_lineno, node.first_col_offset,
                                outcome.msg)>>]

\* what visit_FunctionDef appends to problems before it recurses, or that the
\* call of the checker raised
FunctionDefProblems(node, docs_pattern, function_pattern, width) ==
    IF ~IsTestFunction(function_pattern, node.name)
    THEN [kind |-> "returned", problems |-> <<>>]
    ELSE IF ~HasDocstring(node)
    THEN [kind |-> "returned",
          problems |-> <<Problem(node.lineno, node.col_offset, MISSING_MSG)>>]
    ELSE LET outcome == _docstring_problem_message(
                            node.first.value, node.first_col_offset,
                            docs_pattern, width)
         IN IF outcome.kind = "IndexError"
            THEN [kind |-> "IndexError", problems |-> <<>>]
            ELSE IF outcome.msg = NoMessage
            THEN [kind |-> "returned", problems |-> <<>>]
            ELSE [kind |-> "returned",
                  problems |-> <<Problem(node.first_lineno, node.first_col_offset,
                                         outcome.msg)>>]

\* GenericVisit with the definitions of the body taken last to first
GenericVisit_LastFirst(t, n, pending) ==
    LET body == Children(t, n) IN
    [i \in 1..Len(body) |-> body[Len(body) + 1 - i]] \o pending

\* generic_visit(node): the definitions of the node's body are visited next,
\* in order, before what was pending
GenericVisit(t, n, pending) == Children(t, n) \o pending

\* FileIsChecked with the whole path matched, not its last component
FileIsChecked_WholePath(filename_pattern, path) == ReMatch(filename_pattern, path)

\* re.match(self._test_docs_filename_pattern, Path(self._filename).name)
FileIsChecked(filename_pattern, path) == ReMatch(filename_pattern, BaseName(path))

\* (problem.lineno, problem.col_offset, problem.msg, type(self))
Diagnostic(problem) == <<problem.lineno, problem.col_offset, problem.msg, "Plugin">>

-----------------------------------------------------------------------------
(* Spec: Plugin.run on one file.  The section pattern and the indent width *)
(* are those the class starts with; the two name patterns are the defaults *)
(* or another configured value.                                            *)

Init ==
    /\ pc = "run"
    /\ test_docs_pattern = DocsPattern(TEST_DOCS_PATTERN_DEFAULT)
    /\ test_docs_filename_pattern \in FilenamePatterns
    /\ test_docs_function_pattern \in FunctionPatterns
    /\ indent_size = INDENT_SIZE_DEFAULT
    /\ tree \in Trees(MaxNodes)
    /\ filename \in Filenames
    /\ stack = <<>>
    /\ visited = {}
    /\ problems = <<>>
    /\ fault_node = 0
    /\ yielded = <<>>
    /\ options = NoOptions
    /\ exit_status = "none"
    /\ runs = <<>>
    /\ docstring = <<>>
    /\ col_offset = 0
    /\ result = NotCalled

\* run: the file name does not match, the generator ends at once
RunSkip ==
    /\ pc = "run"
    /\ ~FileIsChecked(test_docs_filename_pattern, filename)
    /\ pc' = "done"
    /\ UNCHANGED <<checker_vars, config_vars, session_vars, walker_vars>>

\* run: a new Visitor, and visitor.visit(self._tree) begins at the Module node
RunVisit ==
    /\ pc = "run"
    /\ FileIsChecked(test_docs_filename_pattern, filename)
    /\ problems' = <<>>
    /\ stack' = <<0>>
    /\ pc' = "visit"
    /\ UNCHANGED <<checker_vars, config_vars, session_vars, tree, filename, visited, fault_node,
                   yielded>>

\* visit(node) for a FunctionDef: visit_FunctionDef
VisitFunctionDef ==
    /\ pc = "visit"
    /\ stack # <<>>
    /\ KindOf(tree, Head(stack)) = "FunctionDef"
    /\ LET n == Head(stack)
           did == FunctionDefProblems(tree[n], test_docs_pattern,
                                      test_docs_function_pattern, indent_size)
       IN /\ visited' = visited \cup {n}
          /\ IF did.kind = "IndexError"
             THEN /\ pc' = "fault"
                  /\ fault_node' = n
                  /\ stack' = <<>>
                  /\ UNCHANGED problems
             ELSE /\ problems' = problems \o did.problems
                  /\ stack' = GenericVisit(tree, n, Tail(stack))
                  /\ UNCHANGED <<pc, fault_node>>
    /\ UNCHANGED <<checker_vars, config_vars, session_vars, tree, filename, yielded>>

\* visit(node) for any other node: generic_visit
VisitOther ==
    /\ pc = "visit"
    /\ stack # <<>>
    /\ KindOf(tree, Head(stack)) # "FunctionDef"
    /\ visited' = visited \cup {Head(stack)}
    /\ stack' = GenericVisit(tree, Head(stack), Tail(stack))
    /\ UNCHANGED <<pc, checker_vars, config_vars, session_vars, tree, filename, problems,
                   fault_node, yielded>>

\* run: the walk returned, every problem is yielded in order
Yield ==
    /\ pc = "visit"
    /\ stack = <<>>
    /\ yielded' = [i \in 1..Len(problems) |-> Diagnostic(problems[i])]
    /\ pc' = "done"
    /\ UNCHANGED <<checker_vars, config_vars, session_vars, tree, filename, stack, visited,
                   problems, fault_node>>

Next == RunSkip \/ RunVisit \/ VisitFunctionDef \/ VisitOther \/ Yield

Spec == Init /\ [][Next]_vars

-----------------------------------------------------------------------------
(* Properties of the Section Grammar Checker, under SpecChecker.           *)

\* C1: the checker is total: for every docstring, column offset, pattern and
\* indent width the call returns None or one message; it never raises, that
\* is, it never reads a line index outside the list of docstring lines.
C1_CheckerIsTotal == pc = "called" => result.kind = "returned"

\* a text matched by (\w+ ?)+ : words separated by single spaces
IsWordText(t) ==
    /\ t # <<>>
    /\ t[1] # " "
    /\ \A i \in 1..Len(t) : t[i] \notin (Whitespace \ {" "}) \cup {":"}
    /\ \A i \in 1..(Len(t) - 1) : ~(t[i] = " " /\ t[i + 1] = " ")

\* the line is '<offset spaces><name>: <text>'
IsHeaderLine(line, offset, name) ==
    /\ StartsWith(line, Spaces(offset) \o name \o <<":", " ">>)
    /\ IsWordText(StrFrom(line, offset + Len(name) + 2))

\* the line is offset + width spaces followed by word text
IsContinuationLine(line, offset, width) ==
    /\ StartsWith(line, Spaces(offset + width))
    /\ IsWordText(StrFrom(line, offset + width))

\* the text is an empty first line, the three sections in order, each a header
\* line and continuation lines, and a last line of offset spaces
IsClosureDocstring(text, offset, docs_pattern, width) ==
    LET ls == Split(text, "\n") IN
    /\ Len(ls) >= 5
    /\ ls[1] = <<>>
    /\ ls[Len(ls)] = Spaces(offset)
    /\ \E h2, h3 \in 3..(Len(ls) - 1) :
          /\ h2 < h3
          /\ IsHeaderLine(ls[2], offset, docs_pattern[1])
          /\ IsHeaderLine(ls[h2], offset, docs_pattern[2])
          /\ IsHeaderLine(ls[h3], offset, docs_pattern[3])
          /\ \A i \in 3..(Len(ls) - 1) :
                i \notin {h2, h3} => IsContinuationLine(ls[i], offset, width)

\* C2: validity closure: a docstring of the closure form, at a column offset
\* of at least 1, is accepted whatever its word text is.
C2_ValidityClosure ==
    (/\ pc = "called"
     /\ col_offset >= 1
     /\ IsClosureDocstring(docstring, col_offset, test_docs_pattern, indent_size))
    => result = Outcome("returned", NoMessage)

-----------------------------------------------------------------------------
(* Properties of the Test Discovery Walker, under Spec.                    *)

Nodes == 1..Len(tree)

\* the first statement of the body is a bare string literal
LeadingStringLiteral(node) == \E text \in {node.first.value} : node.first = StringExpr(text)

\* the name matches the test-function pattern from its start
NameMatches(node) == ReMatch(test_docs_function_pattern, node.name)

\* the indices of the problems anchored at definition n or at its first statement
ProblemsAt(n) ==
    {i \in DOMAIN problems :
        \/ /\ problems[i].lineno = tree[n].lineno
           /\ problems[i].col_offset = tree[n].col_offset
        \/ /\ problems[i].lineno = tree[n].first_lineno
           /\ problems[i].col_offset = tree[n].first_col_offset}

MatchingFunctions ==
    {n \in Nodes : tree[n].kind \in {"FunctionDef", "AsyncFunctionDef"}
                    /\ NameMatches(tree[n])}

\* C3: at most one diagnostic for each function definition whose name matches,
\* so never more diagnostics than matching function definitions, in the
\* Visitor's list and in what run yields.
C3_AtMostOneDiagnostic ==
    /\ \A n \in MatchingFunctions : Cardinality(ProblemsAt(n)) <= 1
    /\ \A i \in DOMAIN problems : \E n \in MatchingFunctions : i \in ProblemsAt(n)
    /\ Len(problems) <= Cardinality(MatchingFunctions)
    /\ Len(yielded) <= Cardinality(MatchingFunctions)

\* two test functions, one without and one with a docstring, one diagnostic each
C3_Witness ==
    /\ pc = "done"
    /\ Len(yielded) = 2
    /\ yielded[1][3].code # yielded[2][3].code

InvalidSuffix == <<", ", MORE_INFO_BASE, "#fix-", <<"t","d","o","0","0","2">>>>

\* problem p is the INVALID diagnostic of definition n: at the string literal's
\* line and column, the INVALID code, the checker's text, then the suffix
IsInvalidDiagnosticOf(p, n) ==
    /\ LeadingStringLiteral(tree[n])
    /\ p.lineno = tree[n].first_lineno
    /\ p.col_offset = tree[n].first_col_offset
    /\ p.msg.code = INVALID_CODE
    /\ p.msg.text # None
    /\ Returned(p.msg.text) =
          DocstringProblemText(tree[n].first.value, tree[n].first_col_offset,
                               test_docs_pattern, indent_size)
    /\ p.msg.postfix = InvalidSuffix

\* C5: every diagnostic starts with its rule code: it is the MISSING message,
\* or it is anchored at a string literal's line and column and is the
\* INVALID code, the checker's text for that literal and the suffix; and a
\* visited test function whose docstring the checker finds a problem in has
\* that diagnostic.
C5_InvalidAnchorAndFormat ==
    /\ \A i \in DOMAIN problems :
          \/ problems[i].msg = MISSING_MSG /\ problems[i].msg.code = MISSING_CODE
          \/ \E n \in Nodes : IsInvalidDiagnosticOf(problems[i], n)
    /\ \A n \in visited \ {0} :
          (/\ tree[n].kind = "FunctionDef"
           /\ NameMatches(tree[n])
           /\ LeadingStringLiteral(tree[n])
           /\ fault_node # n
           /\ DocstringProblemText(tree[n].first.value, tree[n].first_col_offset,
                                   test_docs_pattern, indent_size) # Returned(None))
          => \E i \in DOMAIN problems : IsInvalidDiagnosticOf(problems[i], n)
    /\ pc = "done" => \A i \in DOMAIN yielded : yielded[i][3] = problems[i].msg

\* a run that yielded an INVALID diagnostic at a nested docstring's position
C5_Witness ==
    /\ pc = "done"
    /\ \E i \in DOMAIN yielded : \E n \in Nodes :
          /\ tree[n].parent # 0
          /\ yielded[i][1] = tree[n].first_lineno
          /\ yielded[i][2] = tree[n].first_col_offset
          /\ yielded[i][3].code = INVALID_CODE

\* C6: when the base name of the file does not match the file-name pattern,
\* run ends without visiting the tree and yields nothing.
C6_FilenameFilter ==
    (pc # "run" /\ ~ReMatch(test_docs_filename_pattern, BaseName(filename)))
    => /\ pc = "done"
       /\ visited = {}
       /\ problems = <<>>
       /\ yielded = <<>>

\* a file whose name does not match, holding a test function without docstring
C6_Witness ==
    /\ pc = "done"
    /\ ~ReMatch(test_docs_filename_pattern, BaseName(filename))
    /\ \E n \in Nodes : /\ tree[n].kind = "FunctionDef"
                         /\ NameMatches(tree[n])
                         /\ tree[n].first = PassStatement

\* s.endswith(p)
EndsWith(s, p) == Len(p) <= Len(s) /\ SubSeq(s, Len(s) - Len(p) + 1, Len(s)) = p

\* the name is "test_", any text, then ".py"
IsTestDotPy(name) ==
    /\ Len(name) >= 8
    /\ StartsWith(name, <<"t","e","s","t","_">>)
    /\ EndsWith(name, <<".","p","y">>)

\* C7: with the default file-name pattern a file is checked if and only if
\* its base name is "test_" + any text + ".py": the tree of such a file is
\* visited, and a file with any other name yields no diagnostics.
C7_DefaultFilenamePattern ==
    (pc \in {"done", "fault"}
     /\ test_docs_filename_pattern = TEST_DOCS_FILENAME_PATTERN_DEFAULT)
    => IF IsTestDotPy(BaseName(filename)) THEN 0 \in visited ELSE yielded = <<>>

\* C8: every problem, and every diagnostic run yields, is anchored at a
\* FunctionDef whose name matches the test-function pattern from its start
\* (for the default pattern: starts with "test_") or at that function's
\* docstring literal; other definitions have none.
C8_OnlyTestFunctions ==
    /\ \A i \in DOMAIN problems : \E n \in Nodes :
          /\ i \in ProblemsAt(n)
          /\ tree[n].kind = "FunctionDef"
          /\ NameMatches(tree[n])
          /\ test_docs_function_pattern = TEST_DOCS_FUNCTION_PATTERN_DEFAULT
               => StartsWith(tree[n].name, TEST_NAME)
    /\ \A n \in Nodes : ~NameMatches(tree[n]) => ProblemsAt(n) = {}
    /\ \A i \in DOMAIN yielded :
          /\ yielded[i][1] = problems[i].lineno
          /\ yielded[i][2] = problems[i].col_offset

\* a run over a test function and a function that is none, each with an empty
\* docstring, that yielded the one diagnostic of the test function
C8_Witness ==
    /\ pc = "done"
    /\ Len(yielded) = 1
    /\ \E n, m \in visited \ {0} :
          /\ ~NameMatches(tree[n])
          /\ tree[n].kind = "FunctionDef"
          /\ tree[n].first = StringExpr(<<>>)
          /\ NameMatches(tree[m])
          /\ ProblemsAt(m) # {}

\* C9: when the walk of a checked file has returned, every function
\* definition whose name matches, "async def" included, was checked: it has
\* the MISSING problem when it has no leading string literal, and otherwise
\* the INVALID problem exactly when the checker returns a text.
C9_EveryTestFunctionChecked ==
    (pc = "done" /\ 0 \in visited)
    => \A n \in MatchingFunctions :
          IF LeadingStringLiteral(tree[n])
          THEN (DocstringProblemText(tree[n].first.value, tree[n].first_col_offset,
                                     test_docs_pattern, indent_size) # Returned(None))
               <=> \E i \in DOMAIN problems : IsInvalidDiagnosticOf(problems[i], n)
          ELSE \E i \in DOMAIN problems :
                  problems[i] = Problem(tree[n].lineno, tree[n].col_offset, MISSING_MSG)

\* C10: recursion continues regardless: once the walk of a checked file has
\* ended, every definition nested in a visited class or function definition
\* was visited itself.
C10_RecursionContinues ==
    pc \in {"done", "fault"}
    => \A n \in Nodes : (tree[n].parent # 0 /\ tree[n].parent \in visited) => n \in visited

\* the definition a diagnostic is about: definition n is on line 2n and the
\* first statement of its body on line 2n + 1
NodeOf(diagnostic) == diagnostic[1] \div 2

-----------------------------------------------------------------------------
(* SpecSession: one flake8 process.  argparse converts the value of        *)
(* --test-docs-pattern with Plugin._check_docs_pattern, parse_options      *)
(* records the options on the class, and Plugin objects are made and run.  *)
(* run is a generator: it does nothing until it is first resumed, then     *)
(* filters on the file name, walks the whole tree and yields one problem   *)
(* per resumption.                                                         *)

\* Plugin objects of one process
MaxRuns == 2

\* Python None as the value of an option
NoValue == <<"None">>

\* value or fallback, for str values: None and "" are false
OrElse(value, fallback) == IF value \in {NoValue, <<>>} THEN fallback ELSE value

\* an Optional[int] option: None is the empty sequence, n is <<n>>
NoInt == <<>>

\* value or fallback, for int values: None and 0 are false
IntOrElse(value, fallback) ==
    IF value = NoInt \/ value = <<0>> THEN fallback ELSE value[1]

\* value.count(c)
Count(value, c) == Cardinality({i \in 1..Len(value) : value[i] = c})

\* _check_docs_pattern accepting every value with two or more separators
_check_docs_pattern_AtLeast(value) ==
    IF Count(value, "/") < 2
    THEN [kind |-> "ValueError", value |-> value]
    ELSE [kind |-> "returned", value |-> value]

\* Plugin._check_docs_pattern: the value, or ValueError
_check_docs_pattern(value) ==
    IF Count(value, "/") # 2
    THEN [kind |-> "ValueError", value |-> value]
    ELSE [kind |-> "returned", value |-> value]

\* values --test-docs-pattern is given, the default when it is not given
PatternArguments ==
    {TEST_DOCS_PATTERN_DEFAULT,
     GIVEN_WHEN_THEN,
     <<"g","i","v","e","n">>,
     <<"g","i","v","e","n","/","w","h","e","n">>,
     GIVEN_WHEN_THEN \o <<"/","e","x","t","r","a">>,
     <<"/","/">>,
     <<"g","i","v","e","n","/","/","t","h","e","n">>}

\* the options of the process: as given on the command line, then as the
\* Namespace argparse made of them
Arguments(parsed, pattern, filename_pattern, function_pattern, width) ==
    [parsed |-> parsed, test_docs_pattern |-> pattern,
     test_docs_filename_pattern |-> filename_pattern,
     test_docs_function_pattern |-> function_pattern, indent_size |-> width]

\* a file: its syntax tree and its name
File(t, name) == [tree |-> t, filename |-> name]

TopLevel(first) == Node(0, 0, <<"FunctionDef", TEST_NAME, first>>, 1)

\* the files of a process: a test function without docstring, with an empty
\* docstring, with an accepted docstring, with a docstring the checker raises
\* on, a file whose name is not a test file's, and nested test functions
SessionFiles ==
    {File(<<TopLevel(PassStatement)>>, <<"t","e","s","t","_",".","p","y">>),
     File(<<TopLevel(StringExpr(<<>>))>>, <<"t","e","s","t","_",".","p","y">>),
     File(<<TopLevel(StringExpr(ValidDocstring(SourceIndent)))>>, <<"t","e","s","t","_",".","p","y">>),
     File(<<TopLevel(StringExpr(<<"\n">>))>>, <<"t","e","s","t","_",".","p","y">>),
     File(<<TopLevel(PassStatement)>>, <<"f","i","l","e",".","p","y">>),
     File(<<TopLevel(PassStatement),
            Node(1, 1, <<"FunctionDef", TEST_NAME, StringExpr(<<>>)>>, 2)>>,
          <<"t","e","s","t","_",".","p","y">>)}

\* a Plugin object and the state of its generator
Run(file, at, found, out) ==
    [tree |-> file.tree, filename |-> file.filename, pc |-> at,
     problems |-> found, yielded |-> out]

\* the problems of every Visitor made so far, in the order of the runs
RECURSIVE ProblemsOf(_)
ProblemsOf(rs) ==
    IF rs = <<>> THEN <<>> ELSE rs[1].problems \o ProblemsOf(Tail(rs))

\* NewProblems with one list shared by every Visitor
NewProblems_Shared(existing) == existing

\* Visitor.__init__: self.problems = [], a new list whatever lists exist
NewProblems(existing) == <<>>

\* visitor.visit(node) for the pending nodes: the problems found, or that a
\* visit raised
RECURSIVE Walk(_, _, _, _, _, _)
Walk(t, pending, found, docs_pattern, function_pattern, width) ==
    IF pending = <<>>
    THEN [kind |-> "returned", problems |-> found]
    ELSE LET n == Head(pending) IN
         IF KindOf(t, n) = "FunctionDef"
         THEN LET did == FunctionDefProblems(t[n], docs_pattern,
                                             function_pattern, width)
              IN IF did.kind = "IndexError"
                 THEN [kind |-> "IndexError", problems |-> found]
                 ELSE Walk(t, GenericVisit(t, n, Tail(pending)),
                           found \o did.problems, docs_pattern,
                           function_pattern, width)
         ELSE Walk(t, GenericVisit(t, n, Tail(pending)), found, docs_pattern,
                   function_pattern, width)

InitSession ==
    /\ pc = "arguments"
    /\ \E value \in PatternArguments :
          options = Arguments(FALSE, value, TEST_DOCS_FILENAME_PATTERN_DEFAULT,
                              TEST_DOCS_FUNCTION_PATTERN_DEFAULT,
                              <<INDENT_SIZE_DEFAULT>>)
    /\ exit_status = "none"
    /\ runs = <<>>
    /\ test_docs_pattern = DocsPattern(TEST_DOCS_PATTERN_DEFAULT)
    /\ test_docs_filename_pattern = TEST_DOCS_FILENAME_PATTERN_DEFAULT
    /\ test_docs_function_pattern = TEST_DOCS_FUNCTION_PATTERN_DEFAULT
    /\ indent_size = INDENT_SIZE_DEFAULT
    /\ docstring = <<>>
    /\ col_offset = 0
    /\ result = NotCalled
    /\ tree = <<>>
    /\ filename = <<>>
    /\ stack = <<>>
    /\ visited = {}
    /\ problems = <<>>
    /\ fault_node = 0
    /\ yielded = <<>>

\* argparse converts the value with type=Plugin._check_docs_pattern; a
\* ValueError is a usage error and the process exits
ParseArguments ==
    /\ pc = "arguments"
    /\ IF _check_docs_pattern(options.test_docs_pattern).kind = "ValueError"
       THEN /\ pc' = "exited"
            /\ exit_status' = "non-zero"
            /\ UNCHANGED options
       ELSE /\ pc' = "options"
            /\ options' = [options EXCEPT !.parsed = TRUE]
            /\ UNCHANGED exit_status
    /\ UNCHANGED <<checker_vars, config_vars, walker_vars, runs>>

\* the assignments of Plugin.parse_options for a Namespace whose section
\* pattern, if it has one, holds three names
RecordOptions(namespace) ==
    LET test_docs_pattern_arg ==
            OrElse(namespace.test_docs_pattern, TEST_DOCS_PATTERN_DEFAULT)
    IN
    /\ test_docs_pattern' = DocsPattern(test_docs_pattern_arg)
    /\ test_docs_filename_pattern' =
           OrElse(namespace.test_docs_filename_pattern, test_docs_filename_pattern)
    /\ test_docs_function_pattern' =
           OrElse(namespace.test_docs_function_pattern, test_docs_function_pattern)
    /\ indent_size' = IntOrElse(namespace.indent_size, indent_size)

\* Plugin.parse_options; DocsPattern(*names) takes three names
ParseOptions ==
    /\ pc = "options"
    /\ LET test_docs_pattern_arg ==
               OrElse(options.test_docs_pattern, TEST_DOCS_PATTERN_DEFAULT)
       IN IF Len(DocsPattern(test_docs_pattern_arg)) # 3
          THEN /\ pc' = "exited"
               /\ exit_status' = "non-zero"
               /\ UNCHANGED config_vars
          ELSE /\ RecordOptions(options)
               /\ pc' = "files"
               /\ UNCHANGED exit_status
    /\ UNCHANGED <<checker_vars, walker_vars, options, runs>>

\* Plugin(tree, filename), and run() called: a generator not yet resumed
Construct ==
    /\ pc = "files"
    /\ Len(runs) < MaxRuns
    /\ \E file \in SessionFiles :
          runs' = Append(runs, Run(file, "created", <<>>, <<>>))
    /\ UNCHANGED <<pc, checker_vars, config_vars, walker_vars, options,
                   exit_status>>

\* the first resumption of run, up to its first yield
Start(r) ==
    /\ pc = "files"
    /\ runs[r].pc = "created"
    /\ IF ~FileIsChecked(test_docs_filename_pattern, runs[r].filename)
       THEN runs' = [runs EXCEPT ![r].pc = "done"]
       ELSE LET walk == Walk(runs[r].tree, <<0>>, NewProblems(ProblemsOf(runs)),
                             test_docs_pattern, test_docs_function_pattern,
                             indent_size)
            IN IF walk.kind = "IndexError"
               THEN runs' = [runs EXCEPT ![r].pc = "fault",
                                         ![r].problems = walk.problems]
               ELSE IF walk.problems = <<>>
               THEN runs' = [runs EXCEPT ![r].pc = "done"]
               ELSE runs' = [runs EXCEPT
                               ![r].pc = "yielded",
                               ![r].problems = walk.problems,
                               ![r].yielded = <<Diagnostic(walk.problems[1])>>]
    /\ UNCHANGED <<pc, checker_vars, config_vars, walker_vars, options,
                   exit_status>>

\* a later resumption of run: the next problem is yielded, or the generator
\* ends
Resume(r) ==
    /\ pc = "files"
    /\ runs[r].pc = "yielded"
    /\ LET k == Len(runs[r].yielded) IN
       IF k < Len(runs[r].problems)
       THEN runs' = [runs EXCEPT
                       ![r].yielded = Append(@, Diagnostic(runs[r].problems[k + 1]))]
       ELSE runs' = [runs EXCEPT ![r].pc = "done"]
    /\ UNCHANGED <<pc, checker_vars, config_vars, walker_vars, options,
                   exit_status>>

\* some generator not yet started is resumed
RunStart == \E r \in 1..Len(runs) : Start(r)

\* some generator waiting at its yield is resumed
RunResume == \E r \in 1..Len(runs) : Resume(r)

NextSession == ParseArguments \/ ParseOptions \/ Construct \/ RunStart \/ RunResume

SpecSession == InitSession /\ [][NextSession]_vars

-----------------------------------------------------------------------------
(* SpecOptions: Plugin.parse_options called any number of times, each time *)
(* with a Namespace in which an option has a value or is None.             *)

CUSTOM_FILENAME_PATTERN == <<".","*","_","t","e","s","t",".","p","y">>
CUSTOM_FUNCTION_PATTERN == <<".","*","_","t","e","s","t">>

\* the Namespaces parse_options is called with
OptionNamespaces ==
    {Arguments(TRUE, pattern, filename_pattern, function_pattern, width) :
        pattern \in {NoValue, TEST_DOCS_PATTERN_DEFAULT, GIVEN_WHEN_THEN},
        filename_pattern \in {NoValue, <<>>, TEST_DOCS_FILENAME_PATTERN_DEFAULT,
                              CUSTOM_FILENAME_PATTERN},
        function_pattern \in {NoValue, TEST_DOCS_FUNCTION_PATTERN_DEFAULT,
                              CUSTOM_FUNCTION_PATTERN},
        width \in {NoInt, <<0>>, <<2>>, <<INDENT_SIZE_DEFAULT>>}}

\* the class as it is defined: no call yet
InitOptions ==
    /\ pc = "class"
    /\ options = NoOptions
    /\ exit_status = "none"
    /\ runs = <<>>
    /\ test_docs_pattern = DocsPattern(TEST_DOCS_PATTERN_DEFAULT)
    /\ test_docs_filename_pattern = TEST_DOCS_FILENAME_PATTERN_DEFAULT
    /\ test_docs_function_pattern = TEST_DOCS_FUNCTION_PATTERN_DEFAULT
    /\ indent_size = INDENT_SIZE_DEFAULT
    /\ docstring = <<>>
    /\ col_offset = 0
    /\ result = NotCalled
    /\ tree = <<>>
    /\ filename = <<>>
    /\ stack = <<>>
    /\ visited = {}
    /\ problems = <<>>
    /\ fault_node = 0
    /\ yielded = <<>>

\* Plugin.parse_options(options)
CallParseOptions ==
    /\ pc = "class"
    /\ \E namespace \in OptionNamespaces :
          /\ options' = namespace
          /\ RecordOptions(namespace)
    /\ UNCHANGED <<pc, checker_vars, walker_vars, exit_status, runs>>

NextOptions == CallParseOptions

SpecOptions == InitOptions /\ [][NextOptions]_vars

-----------------------------------------------------------------------------
(* Properties of the process, under SpecSession.                           *)

Finished(r) == runs[r].pc \in {"done", "fault"}

OwnDiagnostics(t) ==
    LET own == Walk(t, <<0>>, <<>>, test_docs_pattern,
                    test_docs_function_pattern, indent_size).problems
    IN [i \in 1..Len(own) |-> Diagnostic(own[i])]

IsPrefix(a, b) == Len(a) <= Len(b) /\ SubSeq(b, 1, Len(a)) = a

\* C13: no state across runs: once the options are recorded, no step of a
\* run changes the configuration of the class, and whatever runs came before
\* or are interleaved with it, a run yields the diagnostics of its own tree
\* and no others.
C13_NoStateAcrossRuns ==
    /\ [](\A r \in 1..Len(runs) :
             /\ IsPrefix(runs[r].yielded, OwnDiagnostics(runs[r].tree))
             /\ runs[r].pc = "done" /\ FileIsChecked(test_docs_filename_pattern,
                                                     runs[r].filename)
                => runs[r].yielded = OwnDiagnostics(runs[r].tree))
    /\ [][pc = "files" => UNCHANGED config_vars]_vars

\* a run that started after another run had found problems has finished
\* with diagnostics of its own
C13_Witness ==
    \E r1, r2 \in 1..Len(runs) :
       /\ r1 # r2
       /\ runs[r1].tree # runs[r2].tree
       /\ runs[r1].pc = "yielded"
       /\ Len(runs[r1].yielded) < Len(runs[r1].problems)
       /\ runs[r2].pc = "done"
       /\ runs[r2].yielded # <<>>

\* C14: configuration error: the value of the section pattern option is
\* accepted if and only if it holds exactly two "/"; any other value (one,
\* two or four names) ends the process with a non-zero status while the
\* options are parsed, before any Plugin object is made or run.
C14_ConfigurationError ==
    pc # "arguments"
    => IF Count(options.test_docs_pattern, "/") = 2
       THEN options.parsed /\ exit_status = "none"
       ELSE /\ ~options.parsed
            /\ pc = "exited"
            /\ exit_status = "non-zero"
            /\ runs = <<>>

\* a value of four names was rejected
C14_Witness ==
    /\ pc = "exited"
    /\ exit_status = "non-zero"
    /\ Count(options.test_docs_pattern, "/") = 3

\* C15: every DocsPattern the checker is run with, the default or one that
\* parse_options built from an accepted value, has exactly three names, each
\* of them non-empty.
C15_DocsPatternInvariant ==
    \A r \in 1..Len(runs) :
       (/\ runs[r].pc # "created"
        /\ FileIsChecked(test_docs_filename_pattern, runs[r].filename)
        /\ \E n \in 1..Len(runs[r].tree) :
              /\ IsTestFunction(test_docs_function_pattern, runs[r].tree[n].name)
              /\ HasDocstring(runs[r].tree[n]))
       => /\ Len(test_docs_pattern) = 3
          /\ \A k \in 1..3 : test_docs_pattern[k] # <<>>

-----------------------------------------------------------------------------
(* Further properties of the Section Grammar Checker, under SpecChecker.   *)

Accepted == pc = "called" /\ result = Outcome("returned", NoMessage)

\* the docstring between its line feeds; element i is line i - 1
DocstringLines == Split(docstring, "\n")

\* the line has exactly col_offset leading spaces and then text
AtSectionIndent(line) ==
    /\ StartsWith(line, Spaces(col_offset))
    /\ Len(line) > col_offset
    /\ line[col_offset + 1] \notin Whitespace

\* the first element of ls after the empty first line that is col_offset
\* spaces and nothing else: in an accepted docstring, the closing line
ClosingLine(ls) ==
    LET closing == {i \in 2..Len(ls) : ls[i] = Spaces(col_offset)} IN
    IF closing = {} THEN Len(ls) + 1
    ELSE CHOOSE i \in closing : \A j \in closing : i <= j

\* the elements of ls before the closing line that are continuation lines:
\* col_offset + indent_size spaces and then word text
ContinuationLines(ls) ==
    {i \in 3..(ClosingLine(ls) - 1) :
        IsContinuationLine(ls[i], col_offset, indent_size)}

\* the number of the section the element i of ls belongs to: the header lines
\* up to it
SectionOf(ls, i) == Cardinality({j \in 2..i : AtSectionIndent(ls[j])})

\* what the checker does on ls with element i replaced by line
Reply(ls, i, line) ==
    _docstring_problem_message(Join([ls EXCEPT ![i] = line], "\n"), col_offset,
                               test_docs_pattern, indent_size)

\* the reply is an INVALID problem about the line of element i
IsInvalidAt(reply, i) ==
    /\ reply.kind = "returned"
    /\ reply.msg.code = INVALID_CODE
    /\ reply.msg.text.line = i - 1

\* the reply is the indentation problem of the description that the line of
\* element i of ls belongs to
IsIndentedProblemAt(reply, ls, i) ==
    /\ IsInvalidAt(reply, i)
    /\ reply.msg.text.rule = INDENTED_RULE
    /\ reply.msg.text.description = Descriptions[SectionOf(ls, i)]

RewriteLine(line, from, to) ==
    LET Header(k) == StartsWith(line, Spaces(col_offset) \o from[k] \o <<":">>)
        Renamed(k) == Spaces(col_offset) \o to[k]
                      \o StrFrom(line, col_offset + Len(from[k]))
    IN IF Header(1) THEN Renamed(1)
       ELSE IF Header(2) THEN Renamed(2)
       ELSE IF Header(3) THEN Renamed(3)
       ELSE line

RewriteKeywords(text, from, to) ==
    LET ls == Split(text, "\n") IN
    Join([i \in 1..Len(ls) |-> RewriteLine(ls[i], from, to)], "\n")

\* C17: pattern reconfiguration: a docstring accepted under arrange/act/assert
\* is accepted under given/when/then once its three header keywords are
\* replaced, and with its old keywords it is rejected under given/when/then
\* by the section-name check of the first section.
C17_PatternReconfiguration ==
    (Accepted /\ test_docs_pattern = DocsPattern(TEST_DOCS_PATTERN_DEFAULT))
    => LET to == DocsPattern(GIVEN_WHEN_THEN) IN
       /\ _docstring_problem_message(
              RewriteKeywords(docstring, test_docs_pattern, to), col_offset,
              to, indent_size) = Outcome("returned", NoMessage)
       /\ _docstring_problem_message(docstring, col_offset, to, indent_size)
             = Outcome("returned",
                       InvalidMessage(Text(INCLUDE_RULE, to[1],
                                           ARRANGE_DESCRIPTION, 1, 0, 0)))

IsBlank(t) == \A i \in 1..Len(t) : t[i] \in Whitespace

\* the line is '<col_offset spaces><name>:' and then nothing but whitespace
IsBareHeader(line, name) ==
    /\ StartsWith(line, Spaces(col_offset) \o name \o <<":">>)
    /\ IsBlank(StrFrom(line, col_offset + Len(name) + 1))

\* C18: section header description: a header line is accepted only if a
\* non-whitespace character follows '<name>: '; no accepted docstring has a
\* line '<name>:' followed by nothing or by whitespace only, and such a line
\* as the first section's header is rejected as lacking the description.
C18_HeaderDescription ==
    LET ls == SplitLines(docstring) IN
    /\ Accepted =>
          \A i \in 2..Len(ls) : \A k \in 1..3 :
             ~IsBareHeader(ls[i], test_docs_pattern[k])
    /\ (/\ pc = "called"
        /\ StartsWith(docstring, <<"\n">>)
        /\ Len(ls) >= 2
        /\ IsBareHeader(ls[2], test_docs_pattern[1]))
       => result = Outcome("returned",
                           InvalidMessage(Text(FOLLOWED_RULE, test_docs_pattern[1],
                                               ARRANGE_DESCRIPTION, 1, 0, 0)))

\* a line the last section's description takes: col_offset + indent_size
\* spaces and no further space
IsDescriptionLine(line) ==
    /\ StartsWith(line, Spaces(col_offset + indent_size))
    /\ ~StartsWith(StrFrom(line, col_offset + indent_size), <<" ">>)

\* the first m of the lines ls are an empty line and three sections that
\* pass: an empty line, three lines at the section indentation and otherwise
\* lines of descriptions, which with a closing line after them, and nothing
\* more, are accepted
SectionsPass(ls, m) ==
    LET body == SubSeq(ls, 1, m) \o <<Spaces(col_offset)>> IN
    /\ ls[1] = <<>>
    /\ \A j \in 2..m : AtSectionIndent(ls[j]) \/ IsDescriptionLine(ls[j])
    /\ Cardinality({j \in 2..m : AtSectionIndent(ls[j])}) = 3
    /\ ClosingLine(body) = m + 1
    /\ _docstring_problem_message(Join(body, "\n"), col_offset,
                                  test_docs_pattern, indent_size)
          = Outcome("returned", NoMessage)

\* the last section's body ends with element m of ls: the sections pass, and
\* the line after them is missing or no line of the description
BodyEnds(ls, m) ==
    /\ m < Len(ls) => ~IsDescriptionLine(ls[m + 1])
    /\ SectionsPass(ls, m)

IsSpaces(line) == \A i \in 1..Len(line) : line[i] = " "

\* the checker returned the INVALID problem of this rule
ProblemIs(rule) ==
    /\ result.kind = "returned"
    /\ result.msg.code = INVALID_CODE
    /\ result.msg.text.rule = rule

\* C19: closing line rule: when all three sections pass, the line right after
\* the last section's body must exist and be exactly col_offset spaces; when
\* it is missing, has fewer or more spaces or any other content, the checker
\* returns the problem of the last line's indentation, never None.
C19_ClosingLineRule ==
    LET ls == SplitLines(docstring) IN
    pc = "called"
    => \A m \in 4..Len(ls) :
          (BodyEnds(ls, m) /\ (m < Len(ls) => ls[m + 1] # Spaces(col_offset)))
          => ProblemIs(LAST_LINE_RULE)

\* C19 as the code has it: the checker never returns None; it returns the
\* problem of the last line's indentation when the line is missing, is only
\* spaces and fewer than col_offset, or is col_offset spaces followed by a
\* character that is no space; a line that is empty gives the empty-line
\* problem, and a line with more leading spaces than col_offset, or with
\* other content before col_offset, gives the indentation problem of the
\* last section's description.
C19_ClosingLineRule_Amended ==
    LET ls == SplitLines(docstring) IN
    pc = "called"
    => \A m \in 4..Len(ls) :
          (BodyEnds(ls, m) /\ (m < Len(ls) => ls[m + 1] # Spaces(col_offset)))
          => IF m = Len(ls)
             THEN ProblemIs(LAST_LINE_RULE)
             ELSE IF ls[m + 1] = <<>>
             THEN ProblemIs(EMPTY_LINE_RULE)
                  /\ result.msg.text.description = ASSERT_DESCRIPTION
                  /\ result.msg.text.line = m
             ELSE IF \/ IsSpaces(ls[m + 1]) /\ Len(ls[m + 1]) < col_offset
                     \/ /\ StartsWith(ls[m + 1], Spaces(col_offset))
                        /\ ~StartsWith(StrFrom(ls[m + 1], col_offset), <<" ">>)
             THEN ProblemIs(LAST_LINE_RULE) /\ result.msg.text.line = m
             ELSE ProblemIs(INDENTED_RULE)
                  /\ result.msg.text.description = ASSERT_DESCRIPTION
                  /\ result.msg.text.line = m

\* the sections passed, the line after them is only spaces, one more than
\* col_offset, and the checker returned the indentation problem
C19_Witness ==
    LET ls == SplitLines(docstring) IN
    /\ pc = "called"
    /\ \E m \in 4..(Len(ls) - 1) :
          /\ BodyEnds(ls, m)
          /\ ls[m + 1] = Spaces(col_offset + 1)
          /\ ProblemIs(INDENTED_RULE)

\* C20: the closing line is the end of the docstring: in every accepted
\* docstring the line of col_offset spaces that follows the last section's
\* body is the last line; nothing comes after it.
C20_ClosingLineIsLast ==
    LET ls == SplitLines(docstring) IN
    Accepted => /\ ls[Len(ls)] = Spaces(col_offset)
                /\ ClosingLine(ls) = Len(ls)

\* C21: rules before the sections: an empty docstring gives 'the docstring
\* should not be empty'; a docstring that is not empty and whose first
\* character is not a line feed gives 'the docstring should start with an
\* empty line'; both whatever the rest of the text is, before any rule of a
\* section.
C21_RulesBeforeSections ==
    pc = "called"
    => /\ docstring = <<>>
          => result = Outcome("returned",
                              InvalidMessage(Text(EMPTY_RULE, <<>>, "", 0, 0, 0)))
       /\ (docstring # <<>> /\ docstring[1] # "\n")
          => result = Outcome("returned",
                              InvalidMessage(Text(START_RULE, <<>>, "", 0, 0, 0)))

\* a docstring of several lines whose first line is not empty and whose
\* second line is no header of the first section: a rule of a section is
\* broken as well, and the start rule is the one returned
C21_Witness ==
    LET ls == SplitLines(docstring) IN
    /\ pc = "called"
    /\ docstring # <<>> /\ docstring[1] # "\n"
    /\ Len(ls) >= 4
    /\ ~StrContains(ls[2], test_docs_pattern[1])
    /\ ProblemIs(START_RULE)

\* the checker returned an INVALID problem that names a line of the docstring
CitesLine ==
    /\ pc = "called"
    /\ result.kind = "returned"
    /\ result.msg.code = INVALID_CODE
    /\ result.msg.text.rule \notin {EMPTY_RULE, START_RULE}

\* lines to put in the place of the lines after the one a problem names: an
\* empty line, a word, a closing line, a line of a description and a header
FillerLines ==
    {<<>>, Word, Spaces(col_offset), Spaces(col_offset + indent_size) \o Word,
     HeaderLine(col_offset, test_docs_pattern[2])}

\* ls with every element after element n replaced by line
FilledAfter(ls, n, line) == [i \in 1..Len(ls) |-> IF i > n THEN line ELSE ls[i]]

\* the line passes the rules of the header of some section
PassesAsHeader(line) ==
    \E k \in 1..3 :
        _section_start_problem_message(
            line, Section(0, test_docs_pattern[k], Descriptions[k], NoName),
            col_offset, Spaces(col_offset)) = None

\* C22: first violation, top to bottom: when the checker returns a problem
\* that names line N, the lines after N do not matter: with their content
\* replaced, the number of lines kept, the same problem is returned; and
\* every line before N passed: line 0 is empty and each other one passes as
\* the header of a section or as a line of a description.
C22_FirstViolation ==
    CitesLine
    => LET ls == SplitLines(docstring)
           n == result.msg.text.line + 1
       IN
       /\ n < Len(ls)
          => \A line \in FillerLines :
                _docstring_problem_message(
                    Join(FilledAfter(ls, n, line), "\n"), col_offset,
                    test_docs_pattern, indent_size) = result
       /\ ls[1] = <<>>
       /\ \A j \in 2..(n - 1) :
             /\ j <= Len(ls)
             /\ PassesAsHeader(ls[j]) \/ IsDescriptionLine(ls[j])

\* a problem about the header of the second section, with the third section
\* and the closing line after it
C22_Witness ==
    /\ CitesLine
    /\ result.msg.text.rule = START_WITH_RULE
    /\ result.msg.text.line >= 2
    /\ Len(SplitLines(docstring)) >= result.msg.text.line + 3

\* the rules of a section's header line
HeaderRules ==
    {SINGLE_EMPTY_RULE, INCLUDE_RULE, HEADER_INDENT_RULE, START_WITH_RULE,
     FOLLOWED_RULE}

\* element j of ls is read as the header line of section k: it is the line
\* after the empty first line, or the sections before k are a header line
\* each and the scan of section k - 1 stops at this line
IsReadAsHeader(ls, k) ==
    /\ Len(ls) >= k + 1
    /\ \A i \in 2..k : IsHeaderLine(ls[i], col_offset, test_docs_pattern[i - 1])
    /\ k > 1 => /\ ls[k + 1] # <<>>
                /\ _next_section_start(ls[k + 1], test_docs_pattern[k],
                                       Spaces(col_offset))

\* the first of the five header checks the line fails, as its rule
FirstFailingHeaderCheck(line, name) ==
    LET at_name == IF Len(line) >= col_offset + Len(name) + 1
                   THEN SubSeq(line, col_offset + 1, col_offset + Len(name) + 1)
                   ELSE <<>>
    IN
    CASE line = <<>> -> SINGLE_EMPTY_RULE
      [] line # <<>> /\ ~StrContains(line, name) -> INCLUDE_RULE
      [] /\ StrContains(line, name)
         /\ \E i \in 1..col_offset : i > Len(line) \/ line[i] # " "
         -> HEADER_INDENT_RULE
      [] /\ StrContains(line, name)
         /\ \A i \in 1..col_offset : i <= Len(line) /\ line[i] = " "
         /\ at_name # name \o <<":">>
         -> START_WITH_RULE
      [] /\ \A i \in 1..col_offset : i <= Len(line) /\ line[i] = " "
         /\ at_name = name \o <<":">>
         /\ Len(line) = col_offset + Len(name) + 1
         -> FOLLOWED_RULE
      [] OTHER -> "None"

\* C23: header check precedence: the header line of a section is checked in
\* a fixed order and the first failing check decides the problem: the line
\* is empty; the name occurs nowhere in it; it does not start with col_offset
\* spaces; the text at column col_offset does not start with '<name>:';
\* nothing follows the colon.  The problem names the section and the line,
\* and a line that passes the five checks gives no header problem.
C23_HeaderPrecedence ==
    (pc = "called" /\ StartsWith(docstring, <<"\n">>))
    => LET ls == SplitLines(docstring) IN
       \A k \in 1..3 :
          IsReadAsHeader(ls, k)
          => LET rule == FirstFailingHeaderCheck(ls[k + 1], test_docs_pattern[k]) IN
             IF rule = "None"
             THEN ~(result.msg.text.rule \in HeaderRules /\ result.msg.text.line = k)
             ELSE    /\ ProblemIs(rule)
                     /\ result.msg.text.line = k
                     /\ rule \in {INCLUDE_RULE, START_WITH_RULE, FOLLOWED_RULE}
                        => result.msg.text.name = test_docs_pattern[k]
                     /\ rule \in {INCLUDE_RULE, FOLLOWED_RULE}
                        => result.msg.text.description = Descriptions[k]

\* the two cases the precedence decides: a header line of the second section
\* at a wrong indentation and without the name, reported as lacking the name
\* (a line of fewer spaces than col_offset), and the header line of the
\* first section with the name in the wrong place at the right indentation,
\* reported as not starting with the name
C23_Witness ==
    LET ls == SplitLines(docstring) IN
    /\ pc = "called" /\ StartsWith(docstring, <<"\n">>)
    /\ \/ /\ IsReadAsHeader(ls, 2)
          /\ ~StartsWith(ls[3], Spaces(col_offset))
          /\ ~StrContains(ls[3], test_docs_pattern[2])
          /\ ProblemIs(INCLUDE_RULE)
       \/ /\ IsReadAsHeader(ls, 1)
          /\ StartsWith(ls[2], Spaces(col_offset) \o Word)
          /\ StrContains(ls[2], test_docs_pattern[1])
          /\ ProblemIs(START_WITH_RULE)

\* the first k sections are a header line each and a line that is not empty
\* follows: the line the scan of the description of section k reads first.
\* A line of the description that is the last line of the docstring is left
\* out: the scan ends on it and the same line is read again as a header.
AfterHeaders(ls, k) ==
    /\ Len(ls) >= k + 2
    /\ \A i \in 2..(k + 1) : IsHeaderLine(ls[i], col_offset, test_docs_pattern[i - 1])
    /\ ls[k + 2] # <<>>
    /\ Len(ls) = k + 2 => ~IsDescriptionLine(ls[k + 2])

\* the name of the section after section k
NextName(k) == IF k < 3 THEN test_docs_pattern[k + 1] ELSE NoName

\* what the checker did shows that it read the line after the header of
\* section k as a line of that section's description: it returned the
\* indentation problem of that line, or the line is a line of a description
\* and no header problem was returned about it
TakenAsDescription(ls, k) ==
    \/ ProblemIs(INDENTED_RULE) /\ result.msg.text.line = k + 1
    \/ /\ IsDescriptionLine(ls[k + 2])
       /\ ~(result.msg.text.rule \in HeaderRules /\ result.msg.text.line = k + 1)

\* the three cases of the heuristic as stated: (iii) asks for a character
\* that is no space right after the prefix
StatedStart(line, next_section_name, section_prefix) ==
    \/ next_section_name # NoName /\ StartsWith(Strip(line), next_section_name)
    \/ Len(line) < Len(section_prefix) /\ IsSpaces(line)
    \/ /\ StartsWith(line, section_prefix)
       /\ Len(line) > Len(section_prefix)
       /\ line[Len(section_prefix) + 1] # " "

\* the same with (iii) as the code has it: the line starts with the prefix
\* and no space comes right after it, the line that is the prefix alone
\* included
StatedStartOrPrefix(line, next_section_name, section_prefix) ==
    \/ StatedStart(line, next_section_name, section_prefix)
    \/ line = section_prefix

\* C24: next-section-start heuristic: a line is read as the start of the
\* next section if and only if (i) there is a next section and the stripped
\* line begins with its name, or (ii) the line is shorter than the section
\* prefix and only spaces, or (iii) the line starts with the section prefix
\* followed immediately by a character that is no space; in every other
\* case the line is read as a line of the description.
C24_NextSectionStart ==
    (pc = "called" /\ StartsWith(docstring, <<"\n">>))
    => LET ls == SplitLines(docstring) IN
       \A k \in 1..3 :
          AfterHeaders(ls, k)
          => (StatedStart(ls[k + 2], NextName(k), Spaces(col_offset))
              <=> ~TakenAsDescription(ls, k))

\* C24 as the code has it: (iii) is 'the line starts with the section prefix
\* and the character after the prefix, if there is one, is no space': the
\* line that is exactly the section prefix, the closing line, is a start too.
C24_NextSectionStart_Amended ==
    (pc = "called" /\ StartsWith(docstring, <<"\n">>))
    => LET ls == SplitLines(docstring) IN
       \A k \in 1..3 :
          AfterHeaders(ls, k)
          => (StatedStartOrPrefix(ls[k + 2], NextName(k), Spaces(col_offset))
              <=> ~TakenAsDescription(ls, k))

\* after the header of the second section comes a line that is exactly the
\* section prefix, and the checker reads it as the start of the third
\* section: it returns that the line should include the third name
C24_Witness ==
    LET ls == SplitLines(docstring) IN
    /\ pc = "called" /\ StartsWith(docstring, <<"\n">>)
    /\ col_offset >= 1
    /\ AfterHeaders(ls, 2)
    /\ ls[4] = Spaces(col_offset)
    /\ ProblemIs(INCLUDE_RULE)
    /\ result.msg.text.line = 3

\* element p of ls is a line the scan of the description of section k reads:
\* the first k sections are a header line each and the lines between the
\* header of section k and element p are lines of its description
IsScanned(ls, k, p) ==
    /\ p >= k + 2 /\ p <= Len(ls)
    /\ \A i \in 2..(k + 1) : IsHeaderLine(ls[i], col_offset, test_docs_pattern[i - 1])
    /\ \A i \in (k + 2)..(p - 1) :
          /\ IsContinuationLine(ls[i], col_offset, indent_size)
          /\ ~StatedStartOrPrefix(ls[i], NextName(k), Spaces(col_offset))

\* the checker returned a problem about the line of element p
IsAbout(p) ==
    /\ result.kind = "returned"
    /\ result.msg.code = INVALID_CODE
    /\ result.msg.text.rule \notin {EMPTY_RULE, START_RULE}
    /\ result.msg.text.line = p - 1

\* C25: continuation lines: in the scan of the lines after a section header
\* an empty line always gives the empty-line problem of the section being
\* scanned, whatever follows it; a line that is not empty and no start of
\* the next section is accepted if and only if it starts with col_offset +
\* indent_size spaces and no space comes next, and otherwise the checker
\* returns the indentation problem with the description, the name and the
\* header index of the section being scanned.
C25_ContinuationLines ==
    (pc = "called" /\ StartsWith(docstring, <<"\n">>))
    => LET ls == SplitLines(docstring) IN
       \A k \in 1..3 : \A p \in (k + 2)..Len(ls) :
          IsScanned(ls, k, p)
          => IF ls[p] = <<>>
             THEN result = Outcome("returned", InvalidMessage(
                      Text(EMPTY_LINE_RULE, <<>>, Descriptions[k], p - 1, 0, 0)))
             ELSE IF StatedStartOrPrefix(ls[p], NextName(k), Spaces(col_offset))
             THEN TRUE
             ELSE IF IsDescriptionLine(ls[p])
             THEN p < Len(ls) => ~IsAbout(p)
             ELSE result = Outcome("returned", InvalidMessage(
                      Text(INDENTED_RULE, test_docs_pattern[k], Descriptions[k],
                           p - 1, k, indent_size)))

\* an empty line in the description of the first section with the header of
\* the second section right after it, reported as the empty line
C25_Witness ==
    LET ls == SplitLines(docstring) IN
    /\ pc = "called" /\ StartsWith(docstring, <<"\n">>)
    /\ Len(ls) >= 4
    /\ IsScanned(ls, 1, 3)
    /\ ls[3] = <<>>
    /\ IsHeaderLine(ls[4], col_offset, test_docs_pattern[2])
    /\ ProblemIs(EMPTY_LINE_RULE)

\* element p of ls is a line at the docstring's own indentation, read in the
\* scan of the description of section k, that does not start with the name
\* of the next section
IsAtDocstringIndent(ls, k, p) ==
    /\ IsScanned(ls, k, p)
    /\ AtSectionIndent(ls[p])
    /\ ~StartsWith(StrFrom(ls[p], col_offset), NextName(k))

IsAcceptedHeader(line, name) ==
    /\ StartsWith(line, Spaces(col_offset) \o name \o <<":">>)
    /\ Len(line) > col_offset + Len(name) + 1

\* the line is col_offset + indent_size spaces with no space after them
IsAcceptedDescription(line) ==
    /\ Len(line) >= col_offset + indent_size
    /\ \A i \in 1..(col_offset + indent_size) : line[i] = " "
    /\ Len(line) > col_offset + indent_size => line[col_offset + indent_size + 1] # " "

\* C27: soundness of acceptance: when the checker returns None, line 0 is
\* empty and there are indices 1 = i1 < i2 < i3 < i4 with each line i_k a
\* header of the k-th name followed by at least one character, every line
\* strictly between two of them a line of col_offset + indent_size spaces
\* with no further space, and line i4 exactly col_offset spaces; the first
\* header is read at index 1: when the line at index 1 is no such header of
\* the first name, the checker returns a header problem that names line 1.
C27_AcceptanceSoundness ==
    LET ls == SplitLines(docstring) IN
    /\ Accepted
       => /\ Len(ls) >= 5
          /\ ls[1] = <<>>
          /\ \E i2, i3, i4 \in 3..Len(ls) :
                /\ i2 < i3 /\ i3 < i4
                /\ IsAcceptedHeader(ls[2], test_docs_pattern[1])
                /\ IsAcceptedHeader(ls[i2], test_docs_pattern[2])
                /\ IsAcceptedHeader(ls[i3], test_docs_pattern[3])
                /\ ls[i4] = Spaces(col_offset)
                /\ \A j \in 3..(i4 - 1) :
                      j \notin {i2, i3} => IsAcceptedDescription(ls[j])
    /\ (/\ pc = "called"
        /\ StartsWith(docstring, <<"\n">>)
        /\ Len(ls) >= 2
        /\ ~IsAcceptedHeader(ls[2], test_docs_pattern[1]))
       => /\ result.kind = "returned"
          /\ result.msg.code = INVALID_CODE
          /\ result.msg.text.rule \in HeaderRules
          /\ result.msg.text.line = 1

\* an accepted docstring with a line of description in its second section
C27_Witness ==
    LET ls == SplitLines(docstring) IN
    /\ Accepted
    /\ Len(ls) >= 6
    /\ IsAcceptedHeader(ls[3], test_docs_pattern[2])
    /\ IsAcceptedDescription(ls[4])

\* C29: when col_offset is 0 the checker never returns None: for every
\* docstring text, pattern and indent width the call returns a problem (the
\* closing line would have to be an empty line, which is either dropped as
\* the trailing line of the text or reported as an empty line of a
\* description).
C29_ProblemAtColumnZero ==
    (pc = "called" /\ col_offset = 0)
    => /\ result.kind = "returned"
       /\ result.msg # NoMessage

-----------------------------------------------------------------------------
(* Properties of the configuration, under SpecOptions.                     *)

\* the value of an option of the last call, the default when it has none
GivenOr(value, default) == IF value = NoValue THEN default ELSE value

\* C28: configuration after option parsing: after any sequence of calls of
\* parse_options each of the four configuration values is what the last
\* call's options say: a value that is given is used as given, an indent
\* width of 0 included, and a value that is not given is the documented
\* default, never what an earlier call left behind.
C28_ConfigurationOfLastCall ==
    options # NoOptions
    => /\ test_docs_pattern =
             DocsPattern(GivenOr(options.test_docs_pattern, TEST_DOCS_PATTERN_DEFAULT))
       /\ test_docs_filename_pattern =
             GivenOr(options.test_docs_filename_pattern,
                     TEST_DOCS_FILENAME_PATTERN_DEFAULT)
       /\ test_docs_function_pattern =
             GivenOr(options.test_docs_function_pattern,
                     TEST_DOCS_FUNCTION_PATTERN_DEFAULT)
       /\ indent_size = IF options.indent_size = NoInt THEN INDENT_SIZE_DEFAULT
                        ELSE options.indent_size[1]

=============================================================================
